---- MODULE Spec2Model ----
(***************************************************************************)
(* Menshun backend: credential rotation records, the credential's rotation *)
(* schedule and the audit log's integrity hooks.                           *)
(*                                                                         *)
(* Time is a whole number of minutes since an arbitrary origin, a naive    *)
(* UTC value as datetime.utcnow() returns it.  A method call takes no      *)
(* time: every datetime.utcnow() read inside one call returns the same     *)
(* value, now.  Optional columns hold NULL when unset.  Credential 1 is    *)
(* stored from the start; SpecCreate adds others.                          *)
(***************************************************************************)
EXTENDS Integers, Sequences, FiniteSets, TLC

(* ------------------------------ bounds -------------------------------- *)
MaxTime == 3
MaxAttempts == 2
MaxCount == 2
MaxAudit == 2

(* ------------------------- program constants -------------------------- *)
NULL == -1
MinutesPerDay == 1440
SecondsPerMinute == 60
DefaultMaxRetries == 3
DefaultRotationFrequencyDays == 90

Times == 0..MaxTime
SchedulerIds == {"s1", "s2"}

CredentialStatus == {"ACTIVE", "EXPIRED", "ROTATED", "REVOKED", "PENDING_ROTATION"}
RotationStatus == {"SCHEDULED", "IN_PROGRESS", "COMPLETED", "FAILED", "CANCELLED"}
NoneStr == "None"

VARIABLES
    now,                  \* datetime.utcnow(), in minutes
    credentials,          \* table credentials: id -> row
    credential_rotations, \* table credential_rotations: sequence of rows, id = index
    sched,                \* each scheduler instance: where it is in its tick
    audit_logs,           \* table audit_logs: sequence of rows, id = index
    writers,              \* each database session: the row it loaded and changed
    role_assignments,     \* table role_assignments: sequence of rows
    sessions,             \* table sessions: id -> row
    system_configurations,\* table system_configurations: sequence of rows
    setup_progress,       \* table setup_progress: sequence of rows
    configuration_history,\* table configuration_history: sequence of rows
    last_op               \* the call that produced this state and what it returned

vars == <<now, credentials, credential_rotations, sched, audit_logs, writers,
          role_assignments, sessions, system_configurations, setup_progress,
          configuration_history, last_op>>

\* The tables of the platform besides the credential and audit tables.
platform == <<role_assignments, sessions, system_configurations,
              setup_progress, configuration_history>>

\* The platform tables before any request was served.
PlatformInit ==
    /\ role_assignments = <<>>
    /\ sessions = <<>>
    /\ system_configurations = <<>>
    /\ setup_progress = <<>>
    /\ configuration_history = <<>>

Op(name, id, ret, err) == [op |-> name, id |-> id, ret |-> ret, err |-> err]

RECURSIVE Pow2(_)
Pow2(n) == IF n <= 0 THEN 1 ELSE 2 * Pow2(n - 1)

(* ----------------------------- Credential ----------------------------- *)
\* f"credentials/{service_name}/{cred_type}/{YYYYMMDD}/{self.id}": the path
\* is modelled by its parts, the date by the day number; id is NULL for an
\* object that has not been flushed (the id default is applied at INSERT).
generate_vault_path(service_name, cred_type, t, id) ==
    << "credentials", service_name, cred_type, t \div MinutesPerDay, id >>

\* A credential row as the column defaults create it.
NewCredential(status, auto, next, freq, notified) ==
    [ status |-> status,
      auto_rotation_enabled |-> auto,
      next_rotation_date |-> next,
      last_rotated |-> NULL,
      rotation_count |-> 0,
      rotation_frequency_days |-> freq,
      notification_sent |-> notified,
      use_count |-> 0,
      last_used |-> NULL,
      version |-> 1,
      is_deleted |-> FALSE,
      deleted_at |-> NULL,
      vault_path |-> generate_vault_path("unknown", "password", 0, 1) ]

\* Only NOT NULL is asked of vault_path.
credentials_accepts_without_unique(row, rows) ==
    row.vault_path # <<>>

\* The constraints of table credentials on vault_path: NOT NULL and
\* UNIQUE (uq_credentials_vault_path).
credentials_accepts(row, rows) ==
    /\ row.vault_path # <<>>
    /\ \A c \in DOMAIN rows : rows[c].vault_path # row.vault_path

needs_rotation_ignores_flag(cred, t) ==
    IF cred.next_rotation_date = NULL THEN TRUE
    ELSE t >= cred.next_rotation_date

needs_rotation(cred, t) ==
    IF ~cred.auto_rotation_enabled THEN FALSE
    ELSE IF cred.next_rotation_date = NULL THEN TRUE
    ELSE t >= cred.next_rotation_date

timedelta_days(d) == d * MinutesPerDay

schedule_rotation_days_as_minutes(cred, t) ==
    [cred EXCEPT !.next_rotation_date = t + cred.rotation_frequency_days]

\* schedule_rotation() with days_from_now left at None
schedule_rotation(cred, t) ==
    [cred EXCEPT !.next_rotation_date = t + timedelta_days(cred.rotation_frequency_days)]

\* BaseModel.soft_delete
soft_delete(ent, t) == [ent EXCEPT !.is_deleted = TRUE, !.deleted_at = t]

\* A restore that clears the flag and keeps the timestamp.
restore_keeps_deleted_at(ent) == [ent EXCEPT !.is_deleted = FALSE]

\* BaseModel.restore
restore(ent) == [ent EXCEPT !.is_deleted = FALSE, !.deleted_at = NULL]

\* A rotation that also puts the credential back to ACTIVE.
mark_rotated_activates(cred, t) ==
    [schedule_rotation([cred EXCEPT !.last_rotated = t,
                                    !.rotation_count = @ + 1,
                                    !.status = "ACTIVE"], t)
        EXCEPT !.notification_sent = FALSE]

mark_rotated(cred, t) ==
    [schedule_rotation([cred EXCEPT !.last_rotated = t,
                                    !.rotation_count = @ + 1], t)
        EXCEPT !.notification_sent = FALSE]

\* An access that is also written down as a rotation.
record_access_as_rotation(cred, t) ==
    [cred EXCEPT !.last_used = t, !.use_count = @ + 1, !.last_rotated = t]

record_access(cred, t) ==
    [cred EXCEPT !.last_used = t, !.use_count = @ + 1]

(* ------------------------- CredentialRotation ------------------------- *)
rotation_default_status_started == "IN_PROGRESS"

rotation_default_status == "SCHEDULED"

\* A credential_rotations row as the column defaults create it.
NewRotation(c, t) ==
    [ credential_id |-> c,
      status |-> rotation_default_status,
      scheduled_date |-> t,
      started_at |-> NULL,
      completed_at |-> NULL,
      new_vault_path |-> NoneStr,
      error_message |-> NoneStr,
      retry_count |-> 0,
      max_retries |-> DefaultMaxRetries,
      next_retry_at |-> NULL,
      duration_seconds |-> NULL ]

\* The constraints of table credential_rotations: primary key, the foreign
\* key to credentials and NOT NULL columns.  Its three indexes are not
\* unique, so no row is refused because of the rows already stored.
credential_rotations_accepts(row, rows) ==
    /\ row.credential_id \in DOMAIN credentials
    /\ row.status \in RotationStatus
    /\ row.scheduled_date # NULL

can_retry_inclusive(rot) ==
    rot.status = "FAILED" /\ rot.retry_count <= rot.max_retries

can_retry(rot) ==
    rot.status = "FAILED" /\ rot.retry_count < rot.max_retries

\* A duration counted in the clock's minutes, and 0 for an attempt that
\* never started.
calculate_duration_in_minutes(rot) ==
    IF rot.started_at = NULL \/ rot.completed_at = NULL THEN 0
    ELSE rot.completed_at - rot.started_at

calculate_duration(rot) ==
    IF rot.started_at = NULL \/ rot.completed_at = NULL THEN NULL
    ELSE (rot.completed_at - rot.started_at) * SecondsPerMinute

mark_started(rot, t) ==
    [rot EXCEPT !.status = "IN_PROGRESS", !.started_at = t]

mark_completed(rot, new_vault_path, t) ==
    LET r == [rot EXCEPT !.status = "COMPLETED",
                         !.completed_at = t,
                         !.new_vault_path = new_vault_path]
    IN [r EXCEPT !.duration_seconds = calculate_duration(r)]

retry_delay_pre_increment(retry_count) == Pow2(retry_count - 1)

\* timedelta(minutes=2 ** self.retry_count), read after the increment
retry_delay(retry_count) == Pow2(retry_count)

\* A failure that only records the error.
mark_failed_keeps_status(rot, error_message, t) ==
    [rot EXCEPT !.error_message = error_message]

\* A failure written down as a cancellation.
mark_failed_as_cancelled(rot, error_message, t) ==
    [rot EXCEPT !.status = "CANCELLED",
                !.error_message = error_message,
                !.completed_at = t]

mark_failed(rot, error_message, t) ==
    LET r1 == [rot EXCEPT !.status = "FAILED",
                          !.error_message = error_message,
                          !.completed_at = t]
        r2 == [r1 EXCEPT !.duration_seconds = calculate_duration(r1)]
    IN IF can_retry(r2)
       THEN LET r3 == [r2 EXCEPT !.retry_count = @ + 1]
            IN [r3 EXCEPT !.next_retry_at = t + retry_delay(r3.retry_count)]
       ELSE r2

(* ------------------------------ AuditLog ------------------------------ *)
AuditActions == {"STARTED", "FAILED"}
AuditResults == {"success", "failure"}

\* The AuditLog object handed to the session; timestamp is NULL when the
\* caller leaves it to the column default.
NewAuditLog(ts, action, result) ==
    [ timestamp |-> ts,
      event_type |-> "credential_rotation",
      action |-> action,
      result |-> result,
      actor_user_id |-> NULL,
      actor_upn |-> NoneStr,
      target_resource_type |-> "credential",
      target_resource_id |-> "1",
      description |-> "rotation",
      source_ip |-> NoneStr,
      severity |-> "info",
      retention_date |-> NULL,
      checksum |-> NoneStr ]

\* SHA-256 over the key-sorted JSON of the nine fields: the digest is
\* modelled by the text it is taken over (no collisions).
calculate_checksum(rec) ==
    << rec.action, rec.actor_upn, rec.description, rec.event_type, rec.result,
       rec.source_ip, rec.target_resource_id, rec.target_resource_type,
       rec.timestamp >>

\* A hook that hashes whatever the object holds, an unset timestamp too.
calculate_checksum_before_insert_any(target) ==
    [err |-> NoneStr,
     target |-> [target EXCEPT !.checksum = calculate_checksum(target)]]

\* before_insert: None when the checksum is set, else the exception raised.
\* The hook runs before the column default fills timestamp in, and
\* self.timestamp.isoformat() needs a datetime.
calculate_checksum_before_insert(target) ==
    IF target.timestamp = NULL
    THEN [err |-> "AttributeError", target |-> target]
    ELSE [err |-> NoneStr,
          target |-> [target EXCEPT !.checksum = calculate_checksum(target)]]

prevent_audit_log_updates_allows(target) == NoneStr

\* before_update: the exception the hook raises
prevent_audit_log_updates(target) == "ValueError"

prevent_audit_log_deletions_allows(target) == NoneStr

\* before_delete: the exception the hook raises
prevent_audit_log_deletions(target) == "ValueError"

\* The columns of audit_logs the model carries, and the keys of the hashed
\* dictionary among them.
AuditColumns ==
    { "timestamp", "event_type", "action", "result", "actor_user_id",
      "actor_upn", "target_resource_type", "target_resource_id",
      "description", "source_ip", "severity", "retention_date", "checksum" }

ChecksumKeys ==
    { "timestamp", "event_type", "action", "result", "actor_upn",
      "target_resource_type", "target_resource_id", "description",
      "source_ip" }

\* AuditIntegrityLog.verify: recompute the checksum from the stored fields
\* and compare it with the stored one.
verify(rec) == rec.checksum = calculate_checksum(rec)

\* Values a column of a stored row can be overwritten with.
AuditColumnValues(rec, f) ==
    CASE f = "timestamp" -> Times
      [] f = "event_type" -> {"credential_rotation", "authentication"}
      [] f = "action" -> AuditActions
      [] f = "result" -> AuditResults
      [] f = "actor_user_id" -> {NULL, 7}
      [] f = "actor_upn" -> {NoneStr, "svc@menshun"}
      [] f = "target_resource_type" -> {"credential", "role"}
      [] f = "target_resource_id" -> {"1", "2"}
      [] f = "description" -> {"rotation", "edited"}
      [] f = "source_ip" -> {NoneStr, "10.0.0.1"}
      [] f = "severity" -> {"info", "critical"}
      [] f = "retention_date" -> {NULL} \cup Times
      [] f = "checksum" ->
            { calculate_checksum([rec EXCEPT !.description = d]) :
                d \in {"rotation", "edited"} }

\* The columns in which two rows differ.
Diff(r1, r2) == { f \in AuditColumns : r1[f] # r2[f] }

(* --------------------------- RotationScheduler ------------------------ *)
InFlightStatuses == {"SCHEDULED", "IN_PROGRESS"}

RotationIds == DOMAIN credential_rotations

InFlight(c) ==
    { i \in RotationIds : /\ credential_rotations[i].credential_id = c
                          /\ credential_rotations[i].status \in InFlightStatuses }

Scheduled(c) ==
    { i \in RotationIds : /\ credential_rotations[i].credential_id = c
                          /\ credential_rotations[i].status = "SCHEDULED" }

\* The scheduler's look at the table before it creates an attempt.
ObservesInFlight(c) == InFlight(c) # {}

IdleScheduler == [pc |-> "idle", cred |-> NULL]

Creating == { s \in SchedulerIds : sched[s].pc = "create" }

\* First half of a scheduler's work on a due credential: look for an
\* attempt in flight; with one there, the invocation ends having done nothing.
SchedulerCheck(s, c) ==
    /\ sched[s].pc = "idle"
    /\ needs_rotation(credentials[c], now)
    /\ Len(credential_rotations) + Cardinality(Creating) < MaxAttempts
    /\ IF ObservesInFlight(c)
       THEN /\ last_op' = Op("scheduler_noop", c, FALSE, NoneStr)
            /\ UNCHANGED sched
       ELSE /\ sched' = [sched EXCEPT ![s] = [pc |-> "create", cred |-> c]]
            /\ last_op' = Op("scheduler_check", c, TRUE, NoneStr)
    /\ UNCHANGED <<now, credentials, credential_rotations, audit_logs, writers, platform>>

\* Second half: the INSERT into credential_rotations.
SchedulerCreate(s) ==
    /\ sched[s].pc = "create"
    /\ LET row == NewRotation(sched[s].cred, now)
       IN IF credential_rotations_accepts(row, credential_rotations)
          THEN /\ credential_rotations' = Append(credential_rotations, row)
               /\ last_op' = Op("scheduler_create", sched[s].cred, TRUE, NoneStr)
          ELSE /\ UNCHANGED credential_rotations
               /\ last_op' = Op("scheduler_create", sched[s].cred, FALSE, "IntegrityError")
    /\ sched' = [sched EXCEPT ![s] = IdleScheduler]
    /\ UNCHANGED <<now, credentials, audit_logs, writers, platform>>

(* ------------------------ calls on stored rows ------------------------ *)
ErrorMessages == {"vault timeout"}
VaultPaths == {"credentials/v2"}

Tick ==
    /\ now < MaxTime
    /\ now' = now + 1
    /\ last_op' = Op("tick", NULL, FALSE, NoneStr)
    /\ UNCHANGED <<credentials, credential_rotations, sched, audit_logs, writers, platform>>

MarkStarted(i) ==
    /\ credential_rotations' =
           [credential_rotations EXCEPT ![i] = mark_started(@, now)]
    /\ last_op' = Op("mark_started", i, TRUE, NoneStr)
    /\ UNCHANGED <<now, credentials, sched, audit_logs, writers, platform>>

MarkCompleted(i, p) ==
    /\ credential_rotations' =
           [credential_rotations EXCEPT ![i] = mark_completed(@, p, now)]
    /\ last_op' = Op("mark_completed", i, TRUE, NoneStr)
    /\ UNCHANGED <<now, credentials, sched, audit_logs, writers, platform>>

\* last_op.ret tells whether the call scheduled a retry.
MarkFailed(i, e) ==
    /\ credential_rotations' =
           [credential_rotations EXCEPT ![i] = mark_failed(@, e, now)]
    /\ last_op' = Op("mark_failed", i,
                     credential_rotations[i].retry_count < credential_rotations[i].max_retries,
                     NoneStr)
    /\ UNCHANGED <<now, credentials, sched, audit_logs, writers, platform>>

\* Cancellation of an attempt that has not started.
Cancel(i) ==
    /\ credential_rotations[i].status = "SCHEDULED"
    /\ credential_rotations' =
           [credential_rotations EXCEPT ![i].status = "CANCELLED"]
    /\ last_op' = Op("cancel", i, TRUE, NoneStr)
    /\ UNCHANGED <<now, credentials, sched, audit_logs, writers, platform>>

MarkRotated(c) ==
    /\ credentials[c].rotation_count < MaxCount
    /\ credentials' = [credentials EXCEPT ![c] = mark_rotated(@, now)]
    /\ last_op' = Op("mark_rotated", c, TRUE, NoneStr)
    /\ UNCHANGED <<now, credential_rotations, sched, audit_logs, writers, platform>>

RecordAccess(c) ==
    /\ credentials[c].use_count < MaxCount
    /\ credentials' = [credentials EXCEPT ![c] = record_access(@, now)]
    /\ last_op' = Op("record_access", c, TRUE, NoneStr)
    /\ UNCHANGED <<now, credential_rotations, sched, audit_logs, writers, platform>>

\* Credential.needs_rotation() called on a stored credential.
SoftDelete(c) ==
    /\ credentials' = [credentials EXCEPT ![c] = soft_delete(@, now)]
    /\ last_op' = Op("soft_delete", c, TRUE, NoneStr)
    /\ UNCHANGED <<now, credential_rotations, sched, audit_logs, writers, platform>>

\* last_op.ret records whether the entity was soft-deleted when restore was
\* called.
Restore(c) ==
    /\ credentials' = [credentials EXCEPT ![c] = restore(@)]
    /\ last_op' = Op("restore", c, credentials[c].is_deleted, NoneStr)
    /\ UNCHANGED <<now, credential_rotations, sched, audit_logs, writers, platform>>

NeedsRotation(c) ==
    /\ last_op' = Op("needs_rotation", c, needs_rotation(credentials[c], now), NoneStr)
    /\ UNCHANGED <<now, credentials, credential_rotations, sched, audit_logs, writers, platform>>

(* ----------------------- calls on the audit log ---------------------- *)
AuditIds == DOMAIN audit_logs

\* The Python-side column defaults the INSERT fills in, after the
\* before_insert event: timestamp = utcnow() when the object has none.
column_defaults(rec, t) ==
    [rec EXCEPT !.timestamp = IF @ = NULL THEN t ELSE @]

\* session.add(record); commit()
AppendAudit(rec) ==
    /\ Len(audit_logs) < MaxAudit
    /\ LET r == calculate_checksum_before_insert(rec)
       IN IF r.err = NoneStr
          THEN /\ audit_logs' = Append(audit_logs, column_defaults(r.target, now))
               /\ last_op' = Op("audit_append", Len(audit_logs) + 1, TRUE, NoneStr)
          ELSE /\ UNCHANGED audit_logs
               /\ last_op' = Op("audit_append", NULL, FALSE, r.err)
    /\ UNCHANGED <<now, credentials, credential_rotations, sched, writers, platform>>

\* A persisted record is loaded, one attribute is set to another value and
\* the session is committed: the flush calls before_update, and an
\* exception there rolls the transaction back.
UpdateAudit(i, changed) ==
    /\ changed # audit_logs[i]
    /\ LET err == prevent_audit_log_updates(changed)
       IN IF err = NoneStr
          THEN /\ audit_logs' = [audit_logs EXCEPT ![i] = changed]
               /\ last_op' = Op("audit_update", i, TRUE, NoneStr)
          ELSE /\ UNCHANGED audit_logs
               /\ last_op' = Op("audit_update", i, FALSE, err)
    /\ UNCHANGED <<now, credentials, credential_rotations, sched, writers, platform>>

\* session.delete(record); commit(): the flush calls before_delete.
DeleteAudit(i) ==
    /\ LET err == prevent_audit_log_deletions(audit_logs[i])
       IN IF err = NoneStr
          THEN /\ audit_logs' = [j \in 1..(Len(audit_logs) - 1) |->
                                   IF j < i THEN audit_logs[j] ELSE audit_logs[j + 1]]
               /\ last_op' = Op("audit_delete", i, TRUE, NoneStr)
          ELSE /\ UNCHANGED audit_logs
               /\ last_op' = Op("audit_delete", i, FALSE, err)
    /\ UNCHANGED <<now, credentials, credential_rotations, sched, writers, platform>>

\* An UPDATE of one column sent to the database directly, past the ORM and
\* its mapper events: the table takes it.
TamperAudit(i, f, v) ==
    /\ v # audit_logs[i][f]
    /\ audit_logs' = [audit_logs EXCEPT ![i] = [@ EXCEPT ![f] = v]]
    /\ last_op' = Op("audit_tamper", i, TRUE, NoneStr)
    /\ UNCHANGED <<now, credentials, credential_rotations, sched, writers, platform>>

\* verify(id) on a stored row
VerifyAudit(i) ==
    /\ last_op' = Op("audit_verify", i, verify(audit_logs[i]), NoneStr)
    /\ UNCHANGED <<now, credentials, credential_rotations, sched, audit_logs, writers, platform>>

(* --------------------------- retention purge -------------------------- *)
\* The records a purge at time t removes: retention_date set and not later
\* than t.
Expired(t) ==
    { i \in AuditIds : /\ audit_logs[i].retention_date # NULL
                       /\ audit_logs[i].retention_date <= t }

\* The meta-audit record of a purge batch of n records.
PurgeRecord(t, n) ==
    [NewAuditLog(t, "PURGE", "success") EXCEPT
        !.event_type = "audit_purge",
        !.target_resource_type = "audit_log",
        !.target_resource_id = ToString(n)]

RECURSIVE Retained(_, _)
\* rows without the ones whose index is in gone, order kept
Retained(rows, gone) ==
    IF rows = <<>> THEN <<>>
    ELSE LET n == Len(rows)
             front == Retained(SubSeq(rows, 1, n - 1), gone)
         IN IF n \in gone THEN front ELSE Append(front, rows[n])

\* purgeExpired(now): one transaction that adds the meta-audit record
\* through the session and then deletes the expired rows with a DELETE
\* statement, which the before_delete mapper event does not see.
PurgeExpired ==
    /\ Expired(now) # {} \/ Len(audit_logs) < MaxAudit
    /\ LET gone == Expired(now)
           r == calculate_checksum_before_insert(PurgeRecord(now, Cardinality(gone)))
       IN IF r.err = NoneStr
          THEN /\ audit_logs' = Append(Retained(audit_logs, gone), r.target)
               /\ last_op' = Op("purge_expired", Cardinality(gone), TRUE, NoneStr)
          ELSE /\ UNCHANGED audit_logs
               /\ last_op' = Op("purge_expired", NULL, FALSE, r.err)
    /\ UNCHANGED <<now, credentials, credential_rotations, sched, writers, platform>>

(* ------------------------ creating credentials ------------------------ *)
MaxCreds == 3
ServiceNames == {"unknown", "billing-api"}
CredentialTypes == {"password", "api_key"}

\* session.add(Credential(vault_path=path, ...)); commit(): the INSERT is
\* refused when a constraint of the table is broken, and the error ends
\* the call.
CreateCredential(id, path) ==
    /\ id \notin DOMAIN credentials
    /\ LET row == [NewCredential("ACTIVE", TRUE, NULL, DefaultRotationFrequencyDays, FALSE)
                     EXCEPT !.vault_path = path]
       IN IF credentials_accepts(row, credentials)
          THEN /\ credentials' = credentials @@ (id :> row)
               /\ last_op' = Op("create_credential", id, TRUE, NoneStr)
          ELSE /\ UNCHANGED credentials
               /\ last_op' = Op("create_credential", id, FALSE, "IntegrityError")
    /\ UNCHANGED <<now, credential_rotations, sched, audit_logs, writers, platform>>

(* --------------------------- RotationExecutor ------------------------- *)
\* The executor picks up a SCHEDULED attempt.
ExecutorStart(i) ==
    /\ credential_rotations[i].status = "SCHEDULED"
    /\ MarkStarted(i)

\* The Vault call of an attempt in progress returns, fails or times out:
\* the executor records the outcome on the attempt.
ExecutorResolve(i) ==
    /\ credential_rotations[i].status = "IN_PROGRESS"
    /\ \/ \E p \in VaultPaths : MarkCompleted(i, p)
       \/ \E e \in ErrorMessages : MarkFailed(i, e)

(* -------------------------- database sessions ------------------------- *)
WriterIds == {"w1", "w2"}

IdleWriter == [pc |-> "idle", cred |-> NULL, loaded |-> <<>>, obj |-> <<>>, ok |-> FALSE]

CredentialMethods == {"record_access", "mark_rotated"}

\* The row an UPDATE of the changed attributes of obj leaves behind: the
\* flush writes the columns whose loaded value differs from the object's.
flush_update(row, loaded, obj) ==
    [f \in DOMAIN row |-> IF obj[f] # loaded[f] THEN obj[f] ELSE row[f]]

\* The WHERE clause of the flush's UPDATE beyond the primary key: the mapper
\* declares no version_id_col, so the loaded version is not compared.
update_matches(row, loaded) == TRUE

\* A session loads credential c and calls method m on the loaded object.
WriterCall(w, c, m) ==
    /\ writers[w].pc = "idle"
    /\ LET row == credentials[c]
       IN /\ m = "record_access" => row.use_count < MaxCount
          /\ m = "mark_rotated" => row.rotation_count < MaxCount
          /\ writers' = [writers EXCEPT ![w] =
                [pc |-> "dirty", cred |-> c, loaded |-> <<row>>,
                 obj |-> << IF m = "record_access" THEN record_access(row, now)
                                                   ELSE mark_rotated(row, now) >>,
                 ok |-> FALSE]]
    /\ last_op' = Op(m, c, TRUE, NoneStr)
    /\ UNCHANGED <<now, credentials, credential_rotations, sched, audit_logs, platform>>

\* session.commit(): the flush sends the UPDATE of the changed attributes.
WriterCommit(w) ==
    /\ writers[w].pc = "dirty"
    /\ LET c == writers[w].cred
           loaded == writers[w].loaded[1]
           obj == writers[w].obj[1]
       IN IF update_matches(credentials[c], loaded)
          THEN /\ credentials' = [credentials EXCEPT ![c] = flush_update(@, loaded, obj)]
               /\ writers' = [writers EXCEPT ![w].pc = "done", ![w].ok = TRUE]
               /\ last_op' = Op("commit", c, TRUE, NoneStr)
          ELSE /\ UNCHANGED credentials
               /\ writers' = [writers EXCEPT ![w].pc = "done", ![w].ok = FALSE]
               /\ last_op' = Op("commit", c, FALSE, "StaleDataError")
    /\ UNCHANGED <<now, credential_rotations, sched, audit_logs, platform>>

(* --------------------------- RoleAssignment --------------------------- *)
MaxAssignments == 2

\* Primary keys of privileged_users, service_identities and directory_roles.
UserIds == {1, 2}
ServiceIdentityIds == {11, 12}
DirectoryRoleIds == {21, 22}

\* A RoleAssignment object before its flush: the two nullable target columns
\* and the role it grants.
NewRoleAssignment(user_id, service_identity_id, directory_role_id) ==
    [ user_id |-> user_id,
      service_identity_id |-> service_identity_id,
      directory_role_id |-> directory_role_id,
      is_active |-> TRUE ]

\* Python truth of an Optional[uuid.UUID]: None is false, a UUID is true.
truthy(v) == v # NULL

validate_assignment_target_allows_both(target) ==
    IF ~truthy(target.user_id) /\ ~truthy(target.service_identity_id)
    THEN "ValueError" ELSE NoneStr

\* The before_insert listener: the exception it raises, NoneStr for none.
validate_assignment_target(target) ==
    IF ~truthy(target.user_id) /\ ~truthy(target.service_identity_id)
    THEN "ValueError"
    ELSE IF truthy(target.user_id) /\ truthy(target.service_identity_id)
         THEN "ValueError"
         ELSE NoneStr

\* session.add(RoleAssignment(...)) and the commit that flushes it: the
\* listener runs before the INSERT, and an exception rolls the flush back.
InsertRoleAssignment(u, s, r) ==
    LET target == NewRoleAssignment(u, s, r)
        err == validate_assignment_target(target)
    IN  /\ Len(role_assignments) < MaxAssignments
        /\ role_assignments' = IF err = NoneStr
                               THEN Append(role_assignments, target)
                               ELSE role_assignments
        /\ last_op' = Op("insert_role_assignment", target, err = NoneStr, err)
        /\ UNCHANGED <<now, credentials, credential_rotations, sched, audit_logs,
                       writers, sessions, system_configurations, setup_progress,
                       configuration_history>>

(* ------------------------------ Session ------------------------------- *)
MaxRequests == 1

MinutesPerHour == 60
DefaultSessionHours == 8
DefaultRiskScore == 50
SessionIds == {1}
SessionHours == {1, DefaultSessionHours}
TerminationReasons == {"logout"}
SuspicionReasons == {"impossible_travel"}

\* A session row as the column defaults create it; compliance_notes is the
\* sequence of the notes joined by newlines, empty for None.
NewSession(created, expires) ==
    [ created_at |-> created,
      last_activity |-> created,
      expires_at |-> expires,
      is_active |-> TRUE,
      terminated_at |-> NULL,
      termination_reason |-> NoneStr,
      is_suspicious |-> FALSE,
      risk_score |-> DefaultRiskScore,
      compliance_notes |-> <<>>,
      request_count |-> 0,
      privileged_operations_count |-> 0,
      failed_operations_count |-> 0,
      last_privileged_operation |-> NULL ]

is_expired(ses, t) == t >= ses.expires_at

is_valid(ses, t) == ses.is_active /\ ~is_expired(ses, t)

update_activity(ses, t) ==
    [ses EXCEPT !.last_activity = t, !.request_count = @ + 1]

record_privileged_operation(ses, t) ==
    update_activity([ses EXCEPT !.privileged_operations_count = @ + 1,
                                !.last_privileged_operation = t], t)

record_failed_operation(ses, t) ==
    update_activity([ses EXCEPT !.failed_operations_count = @ + 1], t)

extend_session_reactivates(ses, t, hours) ==
    [ses EXCEPT !.expires_at = t + hours * MinutesPerHour, !.is_active = TRUE]

extend_session(ses, t, hours) ==
    [ses EXCEPT !.expires_at = t + hours * MinutesPerHour]

terminate(ses, t, reason) ==
    [ses EXCEPT !.is_active = FALSE,
                !.terminated_at = t,
                !.termination_reason = reason]

flag_as_suspicious(ses, t, reason) ==
    [ses EXCEPT !.is_suspicious = TRUE,
                !.risk_score = IF @ > 75 THEN @ ELSE 75,
                !.compliance_notes = Append(@, <<reason, t>>)]

SessionFrame ==
    UNCHANGED <<now, credentials, credential_rotations, sched, audit_logs,
                writers, role_assignments, system_configurations,
                setup_progress, configuration_history>>

UpdateActivity(i) ==
    /\ sessions[i].request_count < MaxRequests
    /\ sessions' = [sessions EXCEPT ![i] = update_activity(@, now)]
    /\ last_op' = Op("update_activity", i, FALSE, NoneStr)
    /\ SessionFrame

RecordPrivilegedOperation(i) ==
    /\ sessions[i].request_count < MaxRequests
    /\ sessions' = [sessions EXCEPT ![i] = record_privileged_operation(@, now)]
    /\ last_op' = Op("record_privileged_operation", i, FALSE, NoneStr)
    /\ SessionFrame

RecordFailedOperation(i) ==
    /\ sessions[i].request_count < MaxRequests
    /\ sessions' = [sessions EXCEPT ![i] = record_failed_operation(@, now)]
    /\ last_op' = Op("record_failed_operation", i, FALSE, NoneStr)
    /\ SessionFrame

ExtendSession(i, hours) ==
    /\ sessions' = [sessions EXCEPT ![i] = extend_session(@, now, hours)]
    /\ last_op' = Op("extend_session", i, FALSE, NoneStr)
    /\ SessionFrame

Terminate(i, reason) ==
    /\ sessions' = [sessions EXCEPT ![i] = terminate(@, now, reason)]
    /\ last_op' = Op("terminate", i, FALSE, NoneStr)
    /\ SessionFrame

FlagAsSuspicious(i, reason) ==
    /\ Len(sessions[i].compliance_notes) < MaxRequests
    /\ sessions' = [sessions EXCEPT ![i] = flag_as_suspicious(@, now, reason)]
    /\ last_op' = Op("flag_as_suspicious", i, FALSE, NoneStr)
    /\ SessionFrame

\* session.is_valid() as a request reads it.
IsValid(i) ==
    /\ last_op' = Op("is_valid", i, is_valid(sessions[i], now), NoneStr)
    /\ UNCHANGED sessions
    /\ SessionFrame

(* --------------------------- Configuration ---------------------------- *)
MaxHistory == 2

\* The entries of default_configs, in the order of the list.
default_configs ==
    << [config_key |-> "AZURE_CLIENT_ID", config_type |-> "string",
        is_required |-> TRUE, default_value |-> NoneStr],
       [config_key |-> "AZURE_CLIENT_SECRET", config_type |-> "string",
        is_required |-> TRUE, default_value |-> NoneStr],
       [config_key |-> "AZURE_TENANT_ID", config_type |-> "string",
        is_required |-> TRUE, default_value |-> NoneStr],
       [config_key |-> "ORGANIZATION_NAME", config_type |-> "string",
        is_required |-> TRUE, default_value |-> NoneStr],
       [config_key |-> "ORGANIZATION_DOMAIN", config_type |-> "string",
        is_required |-> TRUE, default_value |-> NoneStr],
       [config_key |-> "PRIMARY_ADMINISTRATOR_EMAIL", config_type |-> "string",
        is_required |-> TRUE, default_value |-> NoneStr],
       [config_key |-> "DEFAULT_SESSION_TIMEOUT", config_type |-> "integer",
        is_required |-> FALSE, default_value |-> "30"],
       [config_key |-> "REQUIRE_MFA_FOR_PRIVILEGED", config_type |-> "boolean",
        is_required |-> FALSE, default_value |-> "true"],
       [config_key |-> "MAX_ROLE_ASSIGNMENT_DURATION", config_type |-> "integer",
        is_required |-> FALSE, default_value |-> "90"],
       [config_key |-> "ENABLED_COMPLIANCE_FRAMEWORKS", config_type |-> "json",
        is_required |-> FALSE, default_value |-> "[\"SOC2\"]"],
       [config_key |-> "AUDIT_LOG_RETENTION_DAYS", config_type |-> "integer",
        is_required |-> FALSE, default_value |-> "2555"],
       [config_key |-> "REQUIRE_JUSTIFICATION_FOR_PRIVILEGED", config_type |-> "boolean",
        is_required |-> FALSE, default_value |-> "true"],
       [config_key |-> "SMTP_HOST", config_type |-> "string",
        is_required |-> FALSE, default_value |-> NoneStr],
       [config_key |-> "SMTP_PORT", config_type |-> "integer",
        is_required |-> FALSE, default_value |-> "587"],
       [config_key |-> "SMTP_FROM_EMAIL", config_type |-> "string",
        is_required |-> FALSE, default_value |-> NoneStr] >>

\* The entries of setup_steps, in the order of the list.
setup_steps ==
    << [setup_step |-> "welcome", step_order |-> 1],
       [setup_step |-> "azure_setup", step_order |-> 2],
       [setup_step |-> "organization_setup", step_order |-> 3],
       [setup_step |-> "security_setup", step_order |-> 4],
       [setup_step |-> "compliance_setup", step_order |-> 5],
       [setup_step |-> "notifications_setup", step_order |-> 6],
       [setup_step |-> "review_complete", step_order |-> 7] >>

\* SystemConfiguration(**config_data) with the column defaults.
NewSystemConfiguration(config_data, t) ==
    [ config_key |-> config_data.config_key,
      config_value |-> NoneStr,
      config_type |-> config_data.config_type,
      is_required |-> config_data.is_required,
      default_value |-> config_data.default_value,
      is_setup_complete |-> FALSE,
      requires_restart |-> FALSE,
      last_modified_by |-> NoneStr,
      last_modified_date |-> t,
      change_reason |-> NoneStr ]

\* SetupProgress(**step_data) with the column defaults.
NewSetupProgress(step_data) ==
    [ setup_step |-> step_data.setup_step,
      step_order |-> step_data.step_order,
      is_completed |-> FALSE,
      is_skipped |-> FALSE,
      completion_percentage |-> 0,
      completed_by |-> NoneStr,
      completed_date |-> NULL,
      completion_notes |-> NoneStr ]

\* select(...).where(column == key): the positions of the matching rows.
RowsWhere(rows, column, key) == {i \in DOMAIN rows : rows[i][column] = key}

initialize_default_configurations_adds_all(rows, t) ==
    rows \o [i \in DOMAIN default_configs |->
                NewSystemConfiguration(default_configs[i], t)]

\* The table after the loop and its commit. The session has autoflush off, so
\* every select of the loop reads the table as it was before the call.
initialize_default_configurations(rows, t) ==
    LET missing == SelectSeq(default_configs,
                       LAMBDA d : RowsWhere(rows, "config_key", d.config_key) = {})
    IN  rows \o [i \in DOMAIN missing |-> NewSystemConfiguration(missing[i], t)]

initialize_setup_steps(rows) ==
    LET missing == SelectSeq(setup_steps,
                       LAMBDA d : RowsWhere(rows, "setup_step", d.setup_step) = {})
    IN  rows \o [i \in DOMAIN missing |-> NewSetupProgress(missing[i])]

\* The Python values a caller passes as a configuration value.
PyNone == [kind |-> "none", s |-> "", n |-> 0]
PyStr(s) == [kind |-> "str", s |-> s, n |-> 0]
PyInt(n) == [kind |-> "int", s |-> "", n |-> n]
PyBool(b) == [kind |-> "bool", s |-> "", n |-> IF b THEN 1 ELSE 0]

\* The strings of the model that int() parses.
IntLiterals == [s \in {"25"} |-> 25]

\* bool(value)
py_bool(v) == IF v.kind = "str" THEN v.s # "" ELSE v.n # 0

\* str(value)
py_str(v) ==
    CASE v.kind = "str" -> v.s
      [] v.kind = "int" -> ToString(v.n)
      [] v.kind = "bool" -> IF v.n = 1 THEN "True" ELSE "False"
      [] OTHER -> NoneStr

\* int(value) raises ValueError for a string that is not a number.
py_int_raises(v) == v.kind = "str" /\ v.s \notin DOMAIN IntLiterals

py_int(v) == IF v.kind = "str" THEN IntLiterals[v.s] ELSE v.n

\* json.dumps(value)
json_dumps(v) ==
    CASE v.kind = "str" -> "\"" \o v.s \o "\""
      [] v.kind = "int" -> ToString(v.n)
      [] v.kind = "bool" -> IF v.n = 1 THEN "true" ELSE "false"
      [] OTHER -> "null"

\* Whether SystemConfiguration.set_value raises for this value.
set_value_raises(config, value) ==
    /\ value.kind # "none"
    /\ config.config_type = "integer"
    /\ py_int_raises(value)

\* SystemConfiguration.set_value, for a value it does not raise on.
set_value(config, value) ==
    [config EXCEPT !.config_value =
        IF value.kind = "none" THEN NoneStr
        ELSE CASE config.config_type = "boolean" ->
                     IF py_bool(value) THEN "true" ELSE "false"
               [] config.config_type = "integer" -> ToString(py_int(value))
               [] config.config_type = "json" -> json_dumps(value)
               [] OTHER -> py_str(value)]

ConfigurationHistory_old_after_update(config_key, old_value, config, changed_by, change_reason, t) ==
    [ configuration_key |-> config_key,
      old_value |-> config.config_value,
      new_value |-> config.config_value,
      change_type |-> "update",
      changed_by |-> changed_by,
      change_date |-> t,
      change_reason |-> change_reason,
      requires_restart |-> config.requires_restart ]

\* The ConfigurationHistory object update_configuration adds.
ConfigurationHistory(config_key, old_value, config, changed_by, change_reason, t) ==
    [ configuration_key |-> config_key,
      old_value |-> old_value,
      new_value |-> config.config_value,
      change_type |-> "update",
      changed_by |-> changed_by,
      change_date |-> t,
      change_reason |-> change_reason,
      requires_restart |-> config.requires_restart ]

\* configuration_history.changed_by is NOT NULL.
configuration_history_accepts(row) == row.changed_by # NoneStr

ConfigKeys == {"ORGANIZATION_NAME", "SMTP_PORT", "REQUIRE_MFA_FOR_PRIVILEGED",
               "ENABLED_COMPLIANCE_FRAMEWORKS", "NO_SUCH_KEY"}
ConfigValues == {PyNone, PyStr("25"), PyStr("smtp"), PyBool(FALSE)}
ChangedBy == {"admin@example.com", NoneStr}
SetupStepNames == {"review_complete", "no_such_step"}

ConfigFrame ==
    UNCHANGED <<now, credentials, credential_rotations, sched, audit_logs,
                writers, role_assignments, sessions>>

InitializeDefaultConfigurations ==
    /\ system_configurations' =
           initialize_default_configurations(system_configurations, now)
    /\ last_op' = Op("initialize_default_configurations", NULL, FALSE, NoneStr)
    /\ UNCHANGED <<setup_progress, configuration_history>>
    /\ ConfigFrame

InitializeSetupSteps ==
    /\ setup_progress' = initialize_setup_steps(setup_progress)
    /\ last_op' = Op("initialize_setup_steps", NULL, FALSE, NoneStr)
    /\ UNCHANGED <<system_configurations, configuration_history>>
    /\ ConfigFrame

\* update_configuration: False for an unknown key; an exception of set_value
\* or of the commit is caught, the session rolled back and False returned.
UpdateConfiguration(config_key, value, changed_by, change_reason) ==
    LET found == RowsWhere(system_configurations, "config_key", config_key)
    IN  /\ Len(configuration_history) < MaxHistory
        /\ Cardinality(found) <= 1
        /\ IF found = {}
           THEN /\ last_op' = Op("update_configuration", config_key, FALSE, NoneStr)
                /\ UNCHANGED <<system_configurations, configuration_history>>
           ELSE LET i == CHOOSE j \in found : TRUE
                    config == system_configurations[i]
                IN  IF set_value_raises(config, value)
                    THEN /\ last_op' = Op("update_configuration", config_key,
                                          FALSE, "ValueError")
                         /\ UNCHANGED <<system_configurations, configuration_history>>
                    ELSE LET updated == [set_value(config, value) EXCEPT
                                            !.last_modified_by = changed_by,
                                            !.last_modified_date = now,
                                            !.change_reason = change_reason]
                             history == ConfigurationHistory(config_key,
                                            config.config_value, updated,
                                            changed_by, change_reason, now)
                         IN  IF configuration_history_accepts(history)
                             THEN /\ system_configurations' =
                                       [system_configurations EXCEPT ![i] = updated]
                                  /\ configuration_history' =
                                       Append(configuration_history, history)
                                  /\ last_op' = Op("update_configuration",
                                                   config_key, TRUE, NoneStr)
                             ELSE /\ last_op' = Op("update_configuration", config_key,
                                                   FALSE, "IntegrityError")
                                  /\ UNCHANGED <<system_configurations,
                                                 configuration_history>>
        /\ UNCHANGED setup_progress
        /\ ConfigFrame

CompleteSetupStep(setup_step, completed_by) ==
    LET found == RowsWhere(setup_progress, "setup_step", setup_step)
    IN  /\ Cardinality(found) <= 1
        /\ IF found = {}
           THEN /\ last_op' = Op("complete_setup_step", setup_step, FALSE, NoneStr)
                /\ UNCHANGED setup_progress
           ELSE /\ setup_progress' =
                     [setup_progress EXCEPT ![CHOOSE j \in found : TRUE] =
                        [@ EXCEPT !.is_completed = TRUE,
                                  !.completion_percentage = 100,
                                  !.completed_by = completed_by,
                                  !.completed_date = now]]
                /\ last_op' = Op("complete_setup_step", setup_step, TRUE, NoneStr)
        /\ UNCHANGED <<system_configurations, configuration_history>>
        /\ ConfigFrame

(* ------------- Spec: scheduler replicas at one instant ---------------- *)
\* Two scheduler replicas work on the credentials that are due at one clock
\* value, while the methods of the stored attempts are called in any order.
Init ==
    /\ now = 0
    /\ credentials = [c \in {1} |->
           NewCredential("ACTIVE", TRUE, NULL, DefaultRotationFrequencyDays, FALSE)]
    /\ credential_rotations = <<>>
    /\ sched = [s \in SchedulerIds |-> IdleScheduler]
    /\ writers = [w \in WriterIds |-> IdleWriter]
    /\ PlatformInit
    /\ audit_logs = <<>>
    /\ last_op = Op("init", NULL, FALSE, NoneStr)

RowCalls ==
    \/ \E i \in RotationIds : MarkStarted(i)
    \/ \E i \in RotationIds, p \in VaultPaths : MarkCompleted(i, p)
    \/ \E i \in RotationIds, e \in ErrorMessages : MarkFailed(i, e)

Next ==
    \/ \E s \in SchedulerIds, c \in DOMAIN credentials : SchedulerCheck(s, c)
    \/ \E s \in SchedulerIds : SchedulerCreate(s)
    \/ RowCalls

Spec == Init /\ [][Next]_vars

(* ------------- SpecSeq: one scheduler, invoked repeatedly ------------- *)
NextSeq ==
    \/ \E c \in DOMAIN credentials : SchedulerCheck("s1", c)
    \/ SchedulerCreate("s1")
    \/ RowCalls

SpecSeq == Init /\ [][NextSeq]_vars

(* ------------- SpecRetry: the methods of one stored attempt ----------- *)
\* One attempt of one credential, stored with retry_count <= max_retries;
\* its methods are called in any order while the clock advances.
InitRetry ==
    /\ now = 0
    /\ credentials = [c \in {1} |->
           NewCredential("ACTIVE", TRUE, NULL, DefaultRotationFrequencyDays, FALSE)]
    /\ \E mr \in 0..DefaultMaxRetries : \E rc \in 0..mr :
           credential_rotations =
               << [NewRotation(1, now) EXCEPT !.retry_count = rc, !.max_retries = mr] >>
    /\ sched = [s \in SchedulerIds |-> IdleScheduler]
    /\ writers = [w \in WriterIds |-> IdleWriter]
    /\ PlatformInit
    /\ audit_logs = <<>>
    /\ last_op = Op("init", NULL, FALSE, NoneStr)

NextRetry ==
    \/ Tick
    \/ RowCalls

SpecRetry == InitRetry /\ [][NextRetry]_vars

(* ------------- SpecCred: the methods of one stored credential --------- *)
\* The column is an Integer with NOT NULL as its only constraint.
RotationFrequencies == {-1, 0, 30, DefaultRotationFrequencyDays}

InitCred ==
    /\ now = 0
    /\ \E st \in CredentialStatus, auto \in BOOLEAN, next \in {NULL} \cup Times,
          freq \in RotationFrequencies, notified \in BOOLEAN :
           credentials = [c \in {1} |-> NewCredential(st, auto, next, freq, notified)]
    /\ credential_rotations = <<>>
    /\ sched = [s \in SchedulerIds |-> IdleScheduler]
    /\ writers = [w \in WriterIds |-> IdleWriter]
    /\ PlatformInit
    /\ audit_logs = <<>>
    /\ last_op = Op("init", NULL, FALSE, NoneStr)

NextCred ==
    \/ Tick
    \/ \E c \in DOMAIN credentials : NeedsRotation(c)
    \/ \E c \in DOMAIN credentials : MarkRotated(c)
    \/ \E c \in DOMAIN credentials : RecordAccess(c)

SpecCred == InitCred /\ [][NextCred]_vars

(* ------------- SpecAudit: the audit log and its hooks ----------------- *)
InitAudit ==
    /\ now = 0
    /\ credentials = [c \in {1} |->
           NewCredential("ACTIVE", TRUE, NULL, DefaultRotationFrequencyDays, FALSE)]
    /\ credential_rotations = <<>>
    /\ sched = [s \in SchedulerIds |-> IdleScheduler]
    /\ writers = [w \in WriterIds |-> IdleWriter]
    /\ PlatformInit
    /\ audit_logs = <<>>
    /\ last_op = Op("init", NULL, FALSE, NoneStr)

NextAudit ==
    \/ Tick
    \/ \E ts \in {NULL, now}, a \in AuditActions, r \in AuditResults :
          AppendAudit(NewAuditLog(ts, a, r))
    \/ \E i \in AuditIds, a \in AuditActions :
          UpdateAudit(i, [audit_logs[i] EXCEPT !.action = a])
    \/ \E i \in AuditIds, r \in AuditResults :
          UpdateAudit(i, [audit_logs[i] EXCEPT !.result = r])
    \/ \E i \in AuditIds : DeleteAudit(i)

SpecAudit == InitAudit /\ [][NextAudit]_vars

(* ------------- SpecVerify: one stored record, read and tampered ------- *)
\* The log holds one record that went through session.add() and commit();
\* it is verified, and single columns of it are overwritten out of band
\* while its checksum still matches.
InitVerify ==
    /\ now \in Times
    /\ credentials = [c \in {1} |->
           NewCredential("ACTIVE", TRUE, NULL, DefaultRotationFrequencyDays, FALSE)]
    /\ credential_rotations = <<>>
    /\ sched = [s \in SchedulerIds |-> IdleScheduler]
    /\ writers = [w \in WriterIds |-> IdleWriter]
    /\ PlatformInit
    /\ \E a \in AuditActions, r \in AuditResults :
          audit_logs = << calculate_checksum_before_insert(NewAuditLog(now, a, r)).target >>
    /\ last_op = Op("audit_append", 1, TRUE, NoneStr)

NextVerify ==
    \/ \E i \in AuditIds : VerifyAudit(i)
    \/ \E i \in AuditIds, f \in AuditColumns :
          \E v \in AuditColumnValues(audit_logs[i], f) :
             /\ verify(audit_logs[i])
             /\ TamperAudit(i, f, v)

SpecVerify == InitVerify /\ [][NextVerify]_vars

(* ------------- SpecChecksum: records that differ in one column -------- *)
\* A first record is appended; every later one is the first record again
\* or the first record with one column given another value.
NextChecksum ==
    \/ Tick
    \/ \E a \in AuditActions, r \in AuditResults :
          /\ audit_logs = <<>>
          /\ AppendAudit(NewAuditLog(now, a, r))
    \/ \E f \in AuditColumns \ {"checksum"} :
          /\ audit_logs # <<>>
          /\ \E v \in AuditColumnValues(audit_logs[1], f) :
                AppendAudit([audit_logs[1] EXCEPT ![f] = v, !.checksum = NoneStr])

SpecChecksum == InitAudit /\ [][NextChecksum]_vars

(* ------------- SpecVersion: two sessions write one credential --------- *)
InitVersion ==
    /\ now = 0
    /\ \E st \in CredentialStatus, notified \in BOOLEAN :
          credentials = [c \in {1} |->
              NewCredential(st, TRUE, NULL, DefaultRotationFrequencyDays, notified)]
    /\ credential_rotations = <<>>
    /\ sched = [s \in SchedulerIds |-> IdleScheduler]
    /\ writers = [w \in WriterIds |-> IdleWriter]
    /\ PlatformInit
    /\ audit_logs = <<>>
    /\ last_op = Op("init", NULL, FALSE, NoneStr)

NextVersion ==
    \/ Tick
    \/ \E w \in WriterIds, c \in DOMAIN credentials, m \in CredentialMethods :
          WriterCall(w, c, m)
    \/ \E w \in WriterIds : WriterCommit(w)
    \/ \E c \in DOMAIN credentials : MarkRotated(c)

SpecVersion == InitVersion /\ [][NextVersion]_vars

(* ------------- SpecCreate: credentials are added to the table --------- *)
\* The path of a new credential comes from generate_vault_path, called
\* before the flush (id still None) or with the id set by the caller.
NextCreate ==
    \/ \E id \in 1..MaxCreds, sn \in ServiceNames, ct \in CredentialTypes :
          CreateCredential(id, generate_vault_path(sn, ct, now, NULL))
    \/ \E id \in 1..MaxCreds, sn \in ServiceNames, ct \in CredentialTypes :
          CreateCredential(id, generate_vault_path(sn, ct, now, id))

SpecCreate == InitVersion /\ [][NextCreate]_vars

(* ------------- SpecPurge: records with retention dates --------------- *)
NextPurge ==
    \/ Tick
    \/ \E rd \in {NULL, now, now + 1}, ts \in {NULL, now} :
          AppendAudit([NewAuditLog(ts, "STARTED", "success") EXCEPT !.retention_date = rd])
    \/ \E i \in AuditIds : DeleteAudit(i)
    \/ \E i \in AuditIds :
          UpdateAudit(i, [audit_logs[i] EXCEPT !.retention_date = now])
    \/ PurgeExpired

SpecPurge == InitAudit /\ [][NextPurge]_vars

(* ------------- SpecStatus: a credential of each status ---------------- *)
\* Every method that writes to a credential row, called in any order on a
\* credential of any status.
NextStatus ==
    \/ Tick
    \/ \E c \in DOMAIN credentials : MarkRotated(c)
    \/ \E c \in DOMAIN credentials : RecordAccess(c)
    \/ \E c \in DOMAIN credentials : SoftDelete(c)
    \/ \E c \in DOMAIN credentials : Restore(c)

SpecStatus == InitVersion /\ [][NextStatus]_vars

(* ------------- SpecCancel: one attempt that may be cancelled ---------- *)
NextCancel ==
    \/ Tick
    \/ RowCalls
    \/ \E i \in RotationIds : Cancel(i)

SpecCancel == InitRetry /\ [][NextCancel]_vars

(* ------------- SpecExec: the executor works on one attempt ------------ *)
NextExec ==
    \/ Tick
    \/ \E i \in RotationIds : ExecutorStart(i)
    \/ \E i \in RotationIds : ExecutorResolve(i)

\* The Vault call has a bounded timeout, so the outcome of an attempt in
\* progress is recorded in the end.
SpecExec ==
    InitRetry /\ [][NextExec]_vars /\ WF_vars(\E i \in RotationIds : ExecutorResolve(i))

(* ------------- SpecRole: role assignments are inserted ---------------- *)
\* The platform tables are empty and no request was served yet.
InitPlatform ==
    /\ now = 0
    /\ credentials = [c \in {1} |->
           NewCredential("ACTIVE", TRUE, NULL, DefaultRotationFrequencyDays, FALSE)]
    /\ credential_rotations = <<>>
    /\ sched = [s \in SchedulerIds |-> IdleScheduler]
    /\ writers = [w \in WriterIds |-> IdleWriter]
    /\ PlatformInit
    /\ audit_logs = <<>>
    /\ last_op = Op("init", NULL, FALSE, NoneStr)

NextRole ==
    \E u \in UserIds \cup {NULL}, s \in ServiceIdentityIds \cup {NULL},
       r \in DirectoryRoleIds : InsertRoleAssignment(u, s, r)

SpecRole == InitPlatform /\ [][NextRole]_vars

(* ------------- SpecSession: the methods of one session ---------------- *)
\* A session that expires two minutes after it was created.
InitSession ==
    /\ now = 0
    /\ credentials = [c \in {1} |->
           NewCredential("ACTIVE", TRUE, NULL, DefaultRotationFrequencyDays, FALSE)]
    /\ credential_rotations = <<>>
    /\ sched = [s \in SchedulerIds |-> IdleScheduler]
    /\ writers = [w \in WriterIds |-> IdleWriter]
    /\ role_assignments = <<>>
    /\ sessions = [i \in SessionIds |-> NewSession(0, 2)]
    /\ system_configurations = <<>>
    /\ setup_progress = <<>>
    /\ configuration_history = <<>>
    /\ audit_logs = <<>>
    /\ last_op = Op("init", NULL, FALSE, NoneStr)

NextSession ==
    \/ Tick
    \/ \E i \in SessionIds : UpdateActivity(i)
    \/ \E i \in SessionIds : RecordPrivilegedOperation(i)
    \/ \E i \in SessionIds : RecordFailedOperation(i)
    \/ \E i \in SessionIds, h \in SessionHours : ExtendSession(i, h)
    \/ \E i \in SessionIds, r \in TerminationReasons : Terminate(i, r)
    \/ \E i \in SessionIds, r \in SuspicionReasons : FlagAsSuspicious(i, r)
    \/ \E i \in SessionIds : IsValid(i)

SpecSession == InitSession /\ [][NextSession]_vars

(* ------------- SpecConfig: the guided setup --------------------------- *)
NextConfig ==
    \/ InitializeDefaultConfigurations
    \/ InitializeSetupSteps
    \/ \E k \in ConfigKeys, v \in ConfigValues, by \in ChangedBy :
          UpdateConfiguration(k, v, by, "guided setup")
    \/ \E st \in SetupStepNames : CompleteSetupStep(st, "admin@example.com")

SpecConfig == InitPlatform /\ [][NextConfig]_vars

(* ====================================================================== *)
(* Properties                                                             *)
(* ====================================================================== *)
Rot(i) == credential_rotations[i]

\* C1: in every reachable state each credential has at most one attempt
\* whose status is SCHEDULED or IN_PROGRESS.
C1_SingleInFlight ==
    \A c \in DOMAIN credentials : Cardinality(InFlight(c)) <= 1

\* C2: when two scheduler ticks work concurrently on the same credential
\* due at the same instant, only one of them creates an attempt: the
\* credential never has two freshly created (SCHEDULED) attempts.
C2_ConcurrentTicksCreateOne ==
    \A c \in DOMAIN credentials : Cardinality(Scheduled(c)) <= 1

\* C3: with scheduler invocations in sequence at one clock value, a due
\* credential never has more than one SCHEDULED attempt, an invocation that
\* creates leaves exactly one, and an invocation that finds a SCHEDULED
\* attempt of the credential changes no stored state.
C3_SchedulingIdempotent ==
    [][ \A c \in DOMAIN credentials :
          /\ Cardinality(Scheduled(c))' <= 1
          /\ (last_op'.op = "scheduler_create" /\ last_op'.id = c)
                => Cardinality(Scheduled(c))' = 1
          /\ ( /\ Scheduled(c) # {}
               /\ last_op'.op \in {"scheduler_noop", "scheduler_check", "scheduler_create"}
               /\ last_op'.id = c )
                => /\ last_op'.op = "scheduler_noop"
                   /\ UNCHANGED <<now, credentials, credential_rotations, sched,
                                   audit_logs, writers, platform>>
      ]_vars

C3_Witness ==
    /\ last_op.op = "scheduler_noop"
    /\ Cardinality(Scheduled(last_op.id)) = 1
    /\ \E i \in Scheduled(last_op.id) : Rot(i).scheduled_date = now

\* C4: needs_rotation answers true for a credential with auto rotation on
\* and next_rotation_date <= now, and false for every credential with auto
\* rotation off, whatever its next_rotation_date.
C4_DueWhenEnabledAndPast ==
    \A c \in DOMAIN credentials :
        (last_op.op = "needs_rotation" /\ last_op.id = c) =>
            LET cr == credentials[c] IN
            /\ ( /\ cr.auto_rotation_enabled
                 /\ cr.next_rotation_date # NULL
                 /\ cr.next_rotation_date <= now ) => last_op.ret
            /\ ~cr.auto_rotation_enabled => ~last_op.ret

C4_Witness ==
    /\ last_op.op = "needs_rotation"
    /\ last_op.ret
    /\ now > 0
    /\ credentials[last_op.id].auto_rotation_enabled
    /\ credentials[last_op.id].next_rotation_date \in 0..now

\* C5: a credential is reported as due only when its status is ACTIVE.
C5_OnlyActiveDue ==
    \A c \in DOMAIN credentials :
        (last_op.op = "needs_rotation" /\ last_op.id = c /\ last_op.ret)
            => credentials[c].status = "ACTIVE"

\* C6: a failure of an attempt with retry_count < max_retries adds exactly
\* 1 to retry_count and sets next_retry_at to the time of the failure plus
\* 2^(retry_count before the failure + 1) minutes: 2, 4 and 8 minutes
\* for retry_count 0, 1 and 2.
C6_RetryArithmetic ==
    [][ \A i \in RotationIds :
          ( /\ last_op'.op = "mark_failed"
            /\ last_op'.id = i
            /\ Rot(i).retry_count < Rot(i).max_retries )
          => /\ Rot(i)'.retry_count = Rot(i).retry_count + 1
             /\ Rot(i)'.next_retry_at = now + Pow2(Rot(i).retry_count + 1)
             /\ Rot(i).retry_count = 0 => Rot(i)'.next_retry_at = now + 2
             /\ Rot(i).retry_count = 1 => Rot(i)'.next_retry_at = now + 4
             /\ Rot(i).retry_count = 2 => Rot(i)'.next_retry_at = now + 8
      ]_vars

C6_Witness ==
    /\ last_op.op = "mark_failed"
    /\ last_op.ret
    /\ Rot(last_op.id).max_retries = 3
    /\ Rot(last_op.id).retry_count = 3
    /\ now > 0
    /\ Rot(last_op.id).next_retry_at = now + 8

\* C7: a failure of an attempt with retry_count = max_retries leaves the
\* attempt with next_retry_at unset and moves the owning credential to
\* PENDING_ROTATION.
C7_ExhaustedMarksPending ==
    \A i \in RotationIds :
        (last_op.op = "mark_failed" /\ last_op.id = i /\ ~last_op.ret)
            => /\ Rot(i).next_retry_at = NULL
               /\ credentials[Rot(i).credential_id].status = "PENDING_ROTATION"

\* C8: retry_count never exceeds max_retries; retry_count and
\* next_retry_at change only in a step that leaves the attempt FAILED, had
\* retry_count < max_retries and adds exactly 1; a FAILED attempt with
\* retry_count = max_retries keeps both.
C8_RetryBounded ==
    [][ \A i \in RotationIds :
          /\ Rot(i)'.retry_count <= Rot(i)'.max_retries
          /\ ( \/ Rot(i)'.retry_count # Rot(i).retry_count
               \/ Rot(i)'.next_retry_at # Rot(i).next_retry_at )
                => /\ Rot(i)'.status = "FAILED"
                   /\ Rot(i).retry_count < Rot(i).max_retries
                   /\ Rot(i)'.retry_count = Rot(i).retry_count + 1
          /\ (Rot(i).status = "FAILED" /\ Rot(i).retry_count = Rot(i).max_retries)
                => /\ Rot(i)'.retry_count = Rot(i).retry_count
                   /\ Rot(i)'.next_retry_at = Rot(i).next_retry_at
      ]_vars

C8_Witness ==
    /\ last_op.op = "mark_failed"
    /\ ~last_op.ret
    /\ Rot(last_op.id).status = "FAILED"
    /\ Rot(last_op.id).max_retries = 3
    /\ Rot(last_op.id).retry_count = 3
    /\ Rot(last_op.id).next_retry_at # NULL
    /\ Rot(last_op.id).next_retry_at < Rot(last_op.id).completed_at + 8

\* C9: mark_rotated at time T sets last_rotated = T and next_rotation_date
\* = T + rotation_frequency_days days (T + 90 days for frequency 90), adds
\* exactly 1 to rotation_count and clears notification_sent.
C9_MarkRotated ==
    [][ \A c \in DOMAIN credentials :
          (last_op'.op = "mark_rotated" /\ last_op'.id = c)
          => /\ credentials'[c].last_rotated = now
             /\ credentials'[c].next_rotation_date =
                    now + credentials[c].rotation_frequency_days * 24 * 60
             /\ credentials[c].rotation_frequency_days = 90
                    => credentials'[c].next_rotation_date = now + 90 * 24 * 60
             /\ credentials'[c].rotation_count = credentials[c].rotation_count + 1
             /\ credentials'[c].notification_sent = FALSE
      ]_vars

C9_Witness ==
    /\ last_op.op = "mark_rotated"
    /\ now > 0
    /\ credentials[last_op.id].rotation_frequency_days = 90
    /\ credentials[last_op.id].last_rotated = now
    /\ credentials[last_op.id].next_rotation_date = now + 90 * 24 * 60
    /\ credentials[last_op.id].rotation_count = 1
    /\ ~credentials[last_op.id].notification_sent

\* C10: an attempt to change a field of a persisted audit record and
\* persist it ends in an error and leaves the stored records as they were.
C10_AuditUpdateRejected ==
    [][ last_op'.op = "audit_update"
          => /\ last_op'.err # NoneStr
             /\ ~last_op'.ret
             /\ audit_logs' = audit_logs
      ]_vars

C10_Witness ==
    /\ last_op.op = "audit_update"
    /\ last_op.err = "ValueError"
    /\ last_op.id \in AuditIds
    /\ audit_logs[last_op.id].checksum = calculate_checksum(audit_logs[last_op.id])

\* The step changed one column of stored record i behind the ORM, and the
\* record's checksum matched before the step.
TamperedOne(i) ==
    /\ last_op'.op = "audit_tamper"
    /\ last_op'.id = i
    /\ verify(audit_logs[i])
    /\ Cardinality(Diff(audit_logs[i], audit_logs'[i])) = 1

\* C11: a record verifies as long as nothing changed it, and after an
\* out-of-band change of any single column of it, whichever column that
\* is, verify returns false.
C11_VerifyDetectsAnyChange ==
    [][ \A i \in AuditIds :
          /\ (audit_logs'[i] = audit_logs[i] /\ verify(audit_logs[i]))
                => verify(audit_logs'[i])
          /\ TamperedOne(i) => ~verify(audit_logs'[i])
      ]_vars

\* What verify does tell: a change of one of the nine hashed columns, or of
\* the stored checksum, makes it return false; a change of any other column
\* leaves it returning true.
VerifyDetectsHashedChange ==
    [][ \A i \in AuditIds :
          /\ (TamperedOne(i) /\ Diff(audit_logs[i], audit_logs'[i])
                                  \subseteq ChecksumKeys \cup {"checksum"})
                => ~verify(audit_logs'[i])
          /\ (TamperedOne(i) /\ Diff(audit_logs[i], audit_logs'[i])
                                  \cap (ChecksumKeys \cup {"checksum"}) = {})
                => verify(audit_logs'[i])
      ]_vars

\* The fields the checksum is said to separate records by: the hashed keys
\* and the actor given as a reference to a user.
IdentityColumns == ChecksumKeys \cup {"actor_user_id"}

\* C12: stored records that agree on timestamp, event type, action, result,
\* actor, target, description and source address carry the same checksum,
\* and records that differ in exactly one of them, the actor given as a user
\* reference included, carry different checksums.
C12_ChecksumSeparates ==
    \A i, j \in AuditIds :
       LET d == Diff(audit_logs[i], audit_logs[j]) \cap IdentityColumns
       IN /\ d = {} => audit_logs[i].checksum = audit_logs[j].checksum
          /\ Cardinality(d) = 1 => audit_logs[i].checksum # audit_logs[j].checksum

\* An attempt in a state the specification calls terminal.
Terminal(rot) ==
    \/ rot.status \in {"COMPLETED", "CANCELLED"}
    \/ rot.status = "FAILED" /\ rot.retry_count >= rot.max_retries

\* C13: once an attempt is COMPLETED, CANCELLED, or FAILED with its retries
\* used up, no later call changes any of its fields, and a start, complete
\* or fail call on it is rejected with InvalidTransition.
C13_TerminalIsFinal ==
    [][ \A i \in RotationIds :
          Terminal(Rot(i))
            => /\ credential_rotations'[i] = Rot(i)
               /\ (last_op'.op \in {"mark_started", "mark_completed", "mark_failed"}
                     /\ last_op'.id = i)
                    => last_op'.err = "InvalidTransition"
      ]_vars

\* The action an audit record of a transition into status st carries.
TransitionAction(st) ==
    CASE st = "IN_PROGRESS" -> "STARTED"
      [] OTHER -> st

\* C14: every step that changes the status of an attempt appends exactly
\* one audit record, of event type credential_rotation and with the action
\* of the transition.
C14_TransitionAudited ==
    [][ \A i \in RotationIds :
          credential_rotations'[i].status # Rot(i).status
            => /\ Len(audit_logs') = Len(audit_logs) + 1
               /\ audit_logs'[Len(audit_logs')].event_type = "credential_rotation"
               /\ audit_logs'[Len(audit_logs')].action =
                     TransitionAction(credential_rotations'[i].status)
      ]_vars

\* C15: the step that takes an attempt from IN_PROGRESS to COMPLETED stamps
\* completed_at, new_vault_path and duration_seconds on it and marks the
\* owning credential rotated: status ACTIVE, rotation_count one higher,
\* next_rotation_date = completion time + rotation_frequency_days.
C15_CompletionMarksRotated ==
    [][ \A i \in RotationIds :
          (Rot(i).status = "IN_PROGRESS" /\ credential_rotations'[i].status = "COMPLETED")
            => LET c == Rot(i).credential_id
               IN /\ credential_rotations'[i].completed_at = now
                  /\ credential_rotations'[i].new_vault_path # NoneStr
                  /\ credential_rotations'[i].duration_seconds # NULL
                  /\ credentials'[c].status = "ACTIVE"
                  /\ credentials'[c].rotation_count = credentials[c].rotation_count + 1
                  /\ credentials'[c].next_rotation_date =
                        now + timedelta_days(credentials[c].rotation_frequency_days)
      ]_vars

\* C16: after the failure that brings an attempt with max_retries = 3 to
\* retry_count = 3, the attempt is FAILED with next_retry_at unset, its
\* credential is PENDING_ROTATION and the log holds exactly three records
\* with action FAILED.
C16_ThreeTimeouts ==
    \A i \in RotationIds :
        ( /\ last_op.op = "mark_failed" /\ last_op.id = i /\ last_op.ret
          /\ Rot(i).max_retries = 3 /\ Rot(i).retry_count = 3 )
            => /\ Rot(i).status = "FAILED"
               /\ Rot(i).next_retry_at = NULL
               /\ credentials[Rot(i).credential_id].status = "PENDING_ROTATION"
               /\ Cardinality({ k \in AuditIds : audit_logs[k].action = "FAILED" }) = 3

\* C17: mark_rotated on a credential whose status is EXPIRED, ROTATED or
\* REVOKED fails with InvalidTransition and leaves every field of the
\* credential as it was.
C17_MarkRotatedNeedsLiveStatus ==
    [][ \A c \in DOMAIN credentials :
          ( /\ last_op'.op = "mark_rotated" /\ last_op'.id = c
            /\ credentials[c].status \notin {"ACTIVE", "PENDING_ROTATION"} )
            => /\ last_op'.err = "InvalidTransition"
               /\ credentials'[c] = credentials[c]
      ]_vars

\* C18: record_access adds exactly 1 to use_count, sets last_used to the
\* time of the call and leaves next_rotation_date, last_rotated,
\* rotation_count, rotation_frequency_days, auto_rotation_enabled and status
\* as they were.
C18_RecordAccessFrame ==
    [][ \A c \in DOMAIN credentials :
          (last_op'.op = "record_access" /\ last_op'.id = c)
            => /\ credentials'[c].use_count = credentials[c].use_count + 1
               /\ credentials'[c].last_used = now
               /\ credentials'[c].next_rotation_date = credentials[c].next_rotation_date
               /\ credentials'[c].last_rotated = credentials[c].last_rotated
               /\ credentials'[c].rotation_count = credentials[c].rotation_count
               /\ credentials'[c].rotation_frequency_days =
                     credentials[c].rotation_frequency_days
               /\ credentials'[c].auto_rotation_enabled =
                     credentials[c].auto_rotation_enabled
               /\ credentials'[c].status = credentials[c].status
      ]_vars

\* A second access, later than a rotation, on a credential with a schedule.
C18_Witness ==
    /\ last_op.op = "record_access"
    /\ credentials[last_op.id].use_count = 2
    /\ credentials[last_op.id].last_used = now
    /\ credentials[last_op.id].rotation_count = 1
    /\ credentials[last_op.id].last_rotated < now
    /\ credentials[last_op.id].last_rotated # NULL

\* C19: of two sessions that loaded a credential at the same version and
\* both committed a change, at most one commit succeeded, and after a
\* successful commit the stored version is higher than the one loaded.
C19_VersionGated ==
    /\ \A w1, w2 \in WriterIds :
          ( /\ w1 # w2
            /\ writers[w1].pc = "done" /\ writers[w2].pc = "done"
            /\ writers[w1].cred = writers[w2].cred
            /\ writers[w1].loaded[1].version = writers[w2].loaded[1].version )
            => ~(writers[w1].ok /\ writers[w2].ok)
    /\ \A w \in WriterIds :
          (writers[w].pc = "done" /\ writers[w].ok)
            => credentials[writers[w].cred].version > writers[w].loaded[1].version

\* The vault paths stored in the table.
StoredPaths == { credentials[c].vault_path : c \in DOMAIN credentials }

\* C20: no two stored credentials share a vault path; a create succeeds
\* only with a path no stored credential has, and a create with the path of
\* a stored credential ends in an error and leaves the table as it was.
C20_VaultPathUnique ==
    [][ /\ \A c1, c2 \in DOMAIN credentials' :
             c1 # c2 => credentials'[c1].vault_path # credentials'[c2].vault_path
        /\ last_op'.op = "create_credential"
             => IF last_op'.ret
                THEN /\ last_op'.id \notin DOMAIN credentials
                     /\ DOMAIN credentials' = DOMAIN credentials \cup {last_op'.id}
                     /\ credentials'[last_op'.id].vault_path \notin StoredPaths
                     /\ \A c \in DOMAIN credentials : credentials'[c] = credentials[c]
                ELSE /\ last_op'.err # NoneStr
                     /\ credentials' = credentials
      ]_vars

\* A create has just been refused while two credentials are stored, one of
\* them with a path generated before its id was assigned.
C20_Witness ==
    /\ last_op.op = "create_credential"
    /\ ~last_op.ret
    /\ last_op.err = "IntegrityError"
    /\ Cardinality(DOMAIN credentials) = 2
    /\ \E c \in DOMAIN credentials : credentials[c].vault_path[5] = NULL

C22_NextRotationInFuture ==
    \A c \in DOMAIN credentials :
        (last_op.op = "mark_rotated" /\ last_op.id = c)
            => credentials[c].next_rotation_date > credentials[c].last_rotated

\* C23: no step lowers a credential's rotation_count, and a step that
\* changes it is a rotation being recorded and adds exactly 1.
C23_RotationCountMonotonic ==
    [][ \A c \in DOMAIN credentials :
          /\ credentials'[c].rotation_count >= credentials[c].rotation_count
          /\ credentials'[c].rotation_count # credentials[c].rotation_count
                => /\ credentials'[c].rotation_count = credentials[c].rotation_count + 1
                   /\ last_op'.op \in {"mark_rotated", "commit"}
      ]_vars

C25_StartOnlyFromScheduled ==
    [][ \A i \in RotationIds :
          ( /\ last_op'.op = "mark_started" /\ last_op'.id = i
            /\ Rot(i).status # "SCHEDULED" )
            => /\ last_op'.err # NoneStr
               /\ credential_rotations'[i].status = Rot(i).status
               /\ credential_rotations'[i].started_at = Rot(i).started_at
      ]_vars

C27_RetryIsNewAttemptAfterDelay ==
    [][ \A i \in RotationIds :
          (Rot(i).status = "FAILED" /\ Rot(i).next_retry_at # NULL)
            => /\ credential_rotations'[i].status \notin {"SCHEDULED", "IN_PROGRESS"}
               /\ ( /\ last_op'.op = "scheduler_create" /\ last_op'.ret
                     /\ last_op'.id = Rot(i).credential_id )
                    => now >= Rot(i).next_retry_at
      ]_vars

C30_StoredChecksumMatches ==
    [][ /\ \A i \in DOMAIN audit_logs' :
             audit_logs'[i].checksum = calculate_checksum(audit_logs'[i])
        /\ (last_op'.op = "audit_append" /\ last_op'.ret)
             => audit_logs' = Append(audit_logs, audit_logs'[Len(audit_logs')])
        /\ (last_op'.op = "audit_append" /\ ~last_op'.ret)
             => audit_logs' = audit_logs
      ]_vars

\* A second record has just been stored, later than the first.
C30_Witness ==
    /\ last_op.op = "audit_append"
    /\ last_op.ret
    /\ last_op.id = 2
    /\ audit_logs[2].timestamp > audit_logs[1].timestamp
    /\ audit_logs[2].checksum[9] = now

\* C32: a mark_completed or mark_failed call leaves duration_seconds equal
\* to the seconds between started_at and the completed_at it stamps, not
\* negative, when the attempt was started, and unset when it never was.
C32_DurationStamped ==
    [][ \A i \in RotationIds :
          (last_op'.op \in {"mark_completed", "mark_failed"} /\ last_op'.id = i)
            => /\ credential_rotations'[i].completed_at = now
               /\ IF Rot(i).started_at = NULL
                  THEN credential_rotations'[i].duration_seconds = NULL
                  ELSE /\ credential_rotations'[i].duration_seconds =
                            (now - Rot(i).started_at) * 60
                       /\ credential_rotations'[i].duration_seconds >= 0
      ]_vars

\* An attempt started two minutes ago has just been completed.
C32_Witness ==
    /\ last_op.op = "mark_completed"
    /\ Rot(last_op.id).started_at # NULL
    /\ Rot(last_op.id).completed_at = Rot(last_op.id).started_at + 2
    /\ Rot(last_op.id).duration_seconds = 120

\* C33: inserting a RoleAssignment succeeds only when exactly one of user_id
\* and service_identity_id is set; an insert with neither or with both is
\* rejected with an error and stores nothing, so every stored assignment
\* has exactly one target.
ExactlyOneTarget(t) == (t.user_id # NULL) # (t.service_identity_id # NULL)

C33_ExactlyOneTarget ==
    [][ last_op'.op = "insert_role_assignment"
          => /\ last_op'.ret => /\ ExactlyOneTarget(last_op'.id)
                                /\ role_assignments' =
                                     Append(role_assignments, last_op'.id)
             /\ ~ExactlyOneTarget(last_op'.id)
                  => /\ ~last_op'.ret
                     /\ last_op'.err = "ValueError"
                     /\ role_assignments' = role_assignments
             /\ \A i \in DOMAIN role_assignments' :
                  ExactlyOneTarget(role_assignments'[i])
      ]_vars

C33_Witness ==
    /\ last_op.op = "insert_role_assignment"
    /\ last_op.err = "ValueError"
    /\ last_op.id.user_id # NULL
    /\ last_op.id.service_identity_id # NULL
    /\ Len(role_assignments) = 1

\* C34: a terminated session is never valid again: once terminate has
\* stamped terminated_at, is_valid is false in every later state, whatever
\* update_activity, record_privileged_operation, record_failed_operation,
\* extend_session or flag_as_suspicious calls follow; terminate itself
\* leaves the session invalid and stamped.
C34_TerminatedNeverValid ==
    [][ \A i \in SessionIds :
          /\ (last_op'.op = "terminate" /\ last_op'.id = i)
                => /\ sessions'[i].terminated_at = now
                   /\ ~is_valid(sessions'[i], now')
          /\ sessions[i].terminated_at # NULL
                => /\ sessions'[i].terminated_at # NULL
                   /\ ~is_valid(sessions'[i], now')
                   /\ (last_op'.op = "is_valid" /\ last_op'.id = i) => ~last_op'.ret
      ]_vars

C34_Witness ==
    /\ last_op.op = "extend_session"
    /\ sessions[1].terminated_at # NULL
    /\ sessions[1].expires_at > now
    /\ sessions[1].request_count > 0
    /\ sessions[1].last_activity > sessions[1].terminated_at
    /\ sessions[1].is_suspicious

\* C35: initialising default configurations and setup steps is idempotent:
\* after every invocation there is exactly one SystemConfiguration row per
\* default config_key and one SetupProgress row per setup step, the rows
\* that existed before the call are unchanged (values and completion flags
\* included), and a call on an initialised table changes nothing.
OnePerKey(rows, column, entries) ==
    \A e \in DOMAIN entries :
        Cardinality(RowsWhere(rows, column, entries[e][column])) = 1

C35_InitializeIdempotent ==
    [][ /\ last_op'.op = "initialize_default_configurations"
            => /\ OnePerKey(system_configurations', "config_key", default_configs)
               /\ Len(system_configurations') >= Len(system_configurations)
               /\ SubSeq(system_configurations', 1, Len(system_configurations))
                    = system_configurations
               /\ OnePerKey(system_configurations, "config_key", default_configs)
                    => system_configurations' = system_configurations
               /\ UNCHANGED <<setup_progress, configuration_history>>
        /\ last_op'.op = "initialize_setup_steps"
            => /\ OnePerKey(setup_progress', "setup_step", setup_steps)
               /\ Len(setup_progress') >= Len(setup_progress)
               /\ SubSeq(setup_progress', 1, Len(setup_progress)) = setup_progress
               /\ OnePerKey(setup_progress, "setup_step", setup_steps)
                    => setup_progress' = setup_progress
               /\ UNCHANGED <<system_configurations, configuration_history>>
      ]_vars

\* A repeated initialisation of tables that hold a changed value and a
\* completed step.
C35_Witness ==
    /\ last_op.op = "initialize_default_configurations"
    /\ Len(system_configurations) = Len(default_configs)
    /\ Len(setup_progress) = Len(setup_steps)
    /\ \E i \in DOMAIN system_configurations :
          system_configurations[i].config_value # NoneStr
    /\ \E i \in DOMAIN setup_progress : setup_progress[i].is_completed

\* The stored config_value of a key, NoneStr when it is None.
StoredValue(rows, config_key) ==
    rows[CHOOSE i \in RowsWhere(rows, "config_key", config_key) : TRUE].config_value

\* C36: update_configuration on an existing key that returns true records
\* exactly one ConfigurationHistory entry, whose old_value is the value
\* before the update and whose new_value is the value stored after it; on
\* an unknown key or on any error it returns false, stores no history entry
\* and leaves the configuration unchanged; without an error an existing key
\* is updated.
C36_UpdateRecordsHistory ==
    [][ last_op'.op = "update_configuration"
          => LET k == last_op'.id
                 known == RowsWhere(system_configurations, "config_key", k) # {}
             IN  /\ last_op'.ret
                      => /\ known
                         /\ Len(configuration_history') = Len(configuration_history) + 1
                         /\ SubSeq(configuration_history', 1, Len(configuration_history))
                              = configuration_history
                         /\ LET h == configuration_history'[Len(configuration_history')]
                            IN  /\ h.configuration_key = k
                                /\ h.old_value = StoredValue(system_configurations, k)
                                /\ h.new_value = StoredValue(system_configurations', k)
                 /\ (~known \/ last_op'.err # NoneStr) => ~last_op'.ret
                 /\ (known /\ last_op'.err = NoneStr) => last_op'.ret
                 /\ ~last_op'.ret
                      => UNCHANGED <<system_configurations, configuration_history>>
      ]_vars

\* A second update of a key: its history entry starts from the value the
\* first update stored.
C36_Witness ==
    /\ last_op.op = "update_configuration"
    /\ last_op.ret
    /\ Len(configuration_history) = 2
    /\ configuration_history[2].configuration_key = configuration_history[1].configuration_key
    /\ configuration_history[2].old_value = configuration_history[1].new_value
    /\ configuration_history[2].old_value # configuration_history[2].new_value
    /\ configuration_history[2].old_value # NoneStr

\* C37: restore undoes soft_delete: soft_delete sets is_deleted = true
\* together with a deleted_at timestamp and changes no other field, and
\* restore, after a soft_delete or at any other time, leaves is_deleted =
\* false and deleted_at unset and changes no other field.
SoftDeleteFields == {"is_deleted", "deleted_at"}

====
